---------------------------- MODULE Spec2Model ----------------------------
(***************************************************************************)
(* Packet-capture summariser of ai_chat_simple_test.py (class GeminiChat): *)
(* analyze_pcap sniffs the leading magic number, runs _parse_pcap_legacy   *)
(* or _parse_pcapng over the bytes of the file, and returns either the     *)
(* model's answer to the rendered summary or an error string.              *)
(*                                                                         *)
(* The file is a sequence of bytes and every field is decoded from those   *)
(* bytes in the byte order the code uses.  A 32-bit field is decoded to a  *)
(* word (its four bytes, most significant first); Num gives its value.     *)
(* A timestamp is the pair the code combines: <<ts_sec, ts_subsec>> in the *)
(* legacy parser (value ts_sec + ts_subsec / divisor) and                  *)
(* <<ts_high, ts_low>> in the pcapng parser (value                         *)
(* (ts_high * 2^32 + ts_low) / 1000000); None is <<>>.  Arithmetic on      *)
(* timestamps is exact (the code's floats are not rounded here).           *)
(* Strings the code tests with startswith are sequences of characters.     *)
(***************************************************************************)
EXTENDS Integers, Sequences, FiniteSets, TLC

\* ------------------------------------------------------------------ bounds
\* Largest number of packet records generated after a legacy global header.
MaxRecords == 2
\* Largest number of blocks generated after the first Section Header Block.
MaxBlocks == 3
\* max_packets ranges over 0 .. MaxSampleArg.
MaxSampleArg == 2
\* Largest number of observations folded into a histogram in SpecHistogram.
MaxObservations == 6

\* ------------------------------------------------------------ byte helpers
Min(a, b) == IF a < b THEN a ELSE b

\* Python slice s[a:b] of a bytes object (0-based, clamped to the length).
Slice(s, a, b) == SubSeq(s, a + 1, Min(b, Len(s)))

Reverse(s) == [i \in 1..Len(s) |-> s[Len(s) + 1 - i]]

\* struct.unpack of one "I" field: the word, most significant byte first.
UnpackI(b, order) == IF order = "<" THEN Reverse(b) ELSE b

\* The value of a word.
Num(w) == ((w[1] * 256 + w[2]) * 256 + w[3]) * 256 + w[4]

\* struct.unpack of one "I" field as a number.
U32(b, order) == Num(UnpackI(b, order))

\* struct.unpack of one "H" field as a number.
U16(b, order) == IF order = "<" THEN b[1] + 256 * b[2] ELSE 256 * b[1] + b[2]

\* struct.pack of one "I" / "H" field (used to build the input files).
P32(v, order) ==
    LET be == <<(v \div 16777216) % 256, (v \div 65536) % 256,
                (v \div 256) % 256, v % 256>>
    IN  IF order = "<" THEN Reverse(be) ELSE be

P16(v, order) ==
    IF order = "<" THEN <<v % 256, v \div 256>> ELSE <<v \div 256, v % 256>>

Zeros(n) == [i \in 1..n |-> 0]

\* str.startswith on character sequences.
StartsWith(s, p) == Len(s) >= Len(p) /\ SubSeq(s, 1, Len(p)) = p

\* ---------------------------------------------------------------- strings
\* "Error:"
ErrorPrefix ==
    <<"E", "r", "r", "o", "r", ":">>

\* "Error: File is too small to be a valid capture."
MsgFileTooSmall ==
    <<"E", "r", "r", "o", "r", ":", " ", "F", "i", "l", "e", " ", "i", "s",
      " ", "t", "o", "o", " ", "s", "m", "a", "l", "l", " ", "t", "o", " ",
      "b", "e", " ", "a", " ", "v", "a", "l", "i", "d", " ", "c", "a", "p",
      "t", "u", "r", "e", ".">>

\* "Error: Unsupported capture format or magic number."
MsgUnsupportedFormat ==
    <<"E", "r", "r", "o", "r", ":", " ", "U", "n", "s", "u", "p", "p", "o",
      "r", "t", "e", "d", " ", "c", "a", "p", "t", "u", "r", "e", " ", "f",
      "o", "r", "m", "a", "t", " ", "o", "r", " ", "m", "a", "g", "i", "c",
      " ", "n", "u", "m", "b", "e", "r", ".">>

\* "Error: File 'f' not found."
MsgNotFound ==
    <<"E", "r", "r", "o", "r", ":", " ", "F", "i", "l", "e", " ", "'", "f",
      "'", " ", "n", "o", "t", " ", "f", "o", "u", "n", "d", ".">>

\* "Error: Permission denied when reading 'f'."
MsgPermission ==
    <<"E", "r", "r", "o", "r", ":", " ", "P", "e", "r", "m", "i", "s", "s",
      "i", "o", "n", " ", "d", "e", "n", "i", "e", "d", " ", "w", "h", "e",
      "n", " ", "r", "e", "a", "d", "i", "n", "g", " ", "'", "f", "'", ".">>

\* "Error while processing PCAP: "
ExceptPrefix ==
    <<"E", "r", "r", "o", "r", " ", "w", "h", "i", "l", "e", " ", "p", "r",
      "o", "c", "e", "s", "s", "i", "n", "g", " ", "P", "C", "A", "P", ":",
      " ">>

\* "Error: File is too small to be a valid PCAP capture."
MsgLegacyTooSmall ==
    <<"E", "r", "r", "o", "r", ":", " ", "F", "i", "l", "e", " ", "i", "s",
      " ", "t", "o", "o", " ", "s", "m", "a", "l", "l", " ", "t", "o", " ",
      "b", "e", " ", "a", " ", "v", "a", "l", "i", "d", " ", "P", "C", "A",
      "P", " ", "c", "a", "p", "t", "u", "r", "e", ".">>

\* "Error: Unsupported PCAP magic number."
MsgLegacyBadMagic ==
    <<"E", "r", "r", "o", "r", ":", " ", "U", "n", "s", "u", "p", "p", "o",
      "r", "t", "e", "d", " ", "P", "C", "A", "P", " ", "m", "a", "g", "i",
      "c", " ", "n", "u", "m", "b", "e", "r", ".">>

\* "Error: No packets found in the capture."
MsgNoPackets ==
    <<"E", "r", "r", "o", "r", ":", " ", "N", "o", " ", "p", "a", "c", "k",
      "e", "t", "s", " ", "f", "o", "u", "n", "d", " ", "i", "n", " ", "t",
      "h", "e", " ", "c", "a", "p", "t", "u", "r", "e", ".">>

\* "Error: File is too small to be a valid PCAPNG capture."
MsgNgTooSmall ==
    <<"E", "r", "r", "o", "r", ":", " ", "F", "i", "l", "e", " ", "i", "s",
      " ", "t", "o", "o", " ", "s", "m", "a", "l", "l", " ", "t", "o", " ",
      "b", "e", " ", "a", " ", "v", "a", "l", "i", "d", " ", "P", "C", "A",
      "P", "N", "G", " ", "c", "a", "p", "t", "u", "r", "e", ".">>

\* "Error: Malformed PCAPNG block encountered."
MsgNgMalformed ==
    <<"E", "r", "r", "o", "r", ":", " ", "M", "a", "l", "f", "o", "r", "m",
      "e", "d", " ", "P", "C", "A", "P", "N", "G", " ", "b", "l", "o", "c",
      "k", " ", "e", "n", "c", "o", "u", "n", "t", "e", "r", "e", "d", ".">>

\* "Error: PCAPNG block length mismatch."
MsgNgMismatch ==
    <<"E", "r", "r", "o", "r", ":", " ", "P", "C", "A", "P", "N", "G", " ",
      "b", "l", "o", "c", "k", " ", "l", "e", "n", "g", "t", "h", " ", "m",
      "i", "s", "m", "a", "t", "c", "h", ".">>

\* "Error: PCAPNG Section Header Block too short."
MsgShbTooShort ==
    <<"E", "r", "r", "o", "r", ":", " ", "P", "C", "A", "P", "N", "G", " ",
      "S", "e", "c", "t", "i", "o", "n", " ", "H", "e", "a", "d", "e", "r",
      " ", "B", "l", "o", "c", "k", " ", "t", "o", "o", " ", "s", "h", "o",
      "r", "t", ".">>

\* "Error: Unsupported PCAPNG byte-order magic."
MsgByteOrder ==
    <<"E", "r", "r", "o", "r", ":", " ", "U", "n", "s", "u", "p", "p", "o",
      "r", "t", "e", "d", " ", "P", "C", "A", "P", "N", "G", " ", "b", "y",
      "t", "e", "-", "o", "r", "d", "e", "r", " ", "m", "a", "g", "i", "c",
      ".">>

\* "Error: PCAPNG Interface Description Block too short."
MsgIdbTooShort ==
    <<"E", "r", "r", "o", "r", ":", " ", "P", "C", "A", "P", "N", "G", " ",
      "I", "n", "t", "e", "r", "f", "a", "c", "e", " ", "D", "e", "s", "c",
      "r", "i", "p", "t", "i", "o", "n", " ", "B", "l", "o", "c", "k", " ",
      "t", "o", "o", " ", "s", "h", "o", "r", "t", ".">>

\* str(exc) of the UnboundLocalError raised at line 206 and of the ValueError
\* raised by datetime.fromtimestamp past year 9999 (lines 321, 351, 355).
ExcUnboundTimestamp == <<"u", "n", "b", "o", "u", "n", "d">>

ExcYearOutOfRange == <<"y", "e", "a", "r">>

\* str(exc) of whatever generate_content raises, and of the unpacking error
\* at line 109.
ExcModel == <<"a", "p", "i">>

ExcUnpack == <<"u", "n", "p", "a", "c", "k">>

ExcUnboundFormat == <<"f", "m", "t">>

\* response.text.strip() of the text-generation call (opaque).
ResponseText == <<"<", "r", "e", "s", "p", "o", "n", "s", "e", ">">>

\* Fixed placeholders of the sections.
NoEtherTypeText == "No EtherType information."

NoSamplesText == "No packet samples available."

\* ----------------------------------------------------------- magic numbers
\* Words, most significant byte first.
\* 0xA1B2C3D4
MagicLittleMicro == <<161, 178, 195, 212>>

\* 0xD4C3B2A1
MagicBigMicro == <<212, 195, 178, 161>>

\* 0xA1B23C4D
MagicLittleNano == <<161, 178, 60, 77>>

\* 0x4D3CB2A1
MagicBigNano == <<77, 60, 178, 161>>

\* 0x0A0D0D0A
MagicPcapNg == <<10, 13, 13, 10>>

\* 0x1A2B3C4D
ByteOrderLittle == <<26, 43, 60, 77>>

\* 0x4D3C2B1A
ByteOrderBig == <<77, 60, 43, 26>>

\* Block types 0x00000001 and 0x00000006.
BlockIDB == <<0, 0, 0, 1>>

BlockEPB == <<0, 0, 0, 6>>

None == <<>>

\* The Counter key "<truncated>" and an integer EtherType key.
TruncatedKey == [isstr |-> TRUE, code |-> 0]

EtherKey(n) == [isstr |-> FALSE, code |-> n]

\* most_common(5)
TopCount == 5

\* High word of the last microsecond datetime.fromtimestamp accepts.
DatetimeMaxHigh == 58999820

\* ------------------------------------------------------------------ inputs
\* The files the parse is run on, built field by field in the wire layout
\* the parsers read.
RECURSIVE Flatten(_)
Flatten(ss) == IF ss = <<>> THEN <<>> ELSE Head(ss) \o Flatten(Tail(ss))

SeqsUpTo(S, n) == UNION {[1..k -> S] : k \in 0..n}

Flip(order) == IF order = "<" THEN ">" ELSE "<"

\* A 14-byte Ethernet header whose bytes 12..13 hold the EtherType in
\* network order.
Frame(et) == Zeros(12) \o <<et \div 256, et % 256>>

PayloadOf(body) ==
    CASE body = "ipv4" -> Frame(2048)
      [] body = "arp" -> Frame(2054)
      [] OTHER -> <<1, 2>>

LegacyProfiles ==
    { [magic |-> MagicLittleMicro, order |-> "<"],
      [magic |-> MagicBigMicro, order |-> ">"],
      [magic |-> MagicLittleNano, order |-> "<"],
      [magic |-> MagicBigNano, order |-> ">"] }

\* magic(4) version(2,2) thiszone(4) sigfigs(4) snaplen(4) network(4)
LegacyGlobalHeader(p) ==
    Reverse(p.magic) \o P16(2, p.order) \o P16(4, p.order) \o P32(0, p.order)
        \o P32(0, p.order) \o P32(96, p.order) \o P32(1, p.order)

RecordParams ==
    { [ts |-> t, body |-> b] :
        t \in {<<1, 500000>>, <<0, 7>>}, b \in {"ipv4", "arp", "short"} }

\* ts-seconds(4) ts-subseconds(4) captured-length(4) original-length(4) payload
LegacyRecord(r, order) ==
    P32(r.ts[1], order) \o P32(r.ts[2], order)
        \o P32(Len(PayloadOf(r.body)), order) \o P32(60, order)
        \o PayloadOf(r.body)

\* What follows the last complete record: nothing, fewer than 16 bytes, or a
\* record header that declares 14 payload bytes of which 5 are present.
LegacyTail(t, order) ==
    CASE t = "stray" -> <<0, 0, 0>>
      [] t = "cut" -> P32(2, order) \o P32(0, order) \o P32(14, order)
                          \o P32(14, order) \o <<1, 2, 3, 4, 5>>
      [] OTHER -> <<>>

LegacyFile(p, rs, t) ==
    LegacyGlobalHeader(p)
        \o Flatten([i \in 1..Len(rs) |-> LegacyRecord(rs[i], p.order)])
        \o LegacyTail(t, p.order)

LegacyFiles ==
    { LegacyFile(p, rs, "none") :
        p \in LegacyProfiles, rs \in SeqsUpTo(RecordParams, MaxRecords) }
    \cup
    { LegacyFile(p, rs, t) :
        p \in LegacyProfiles, rs \in SeqsUpTo(RecordParams, MaxRecords - 1),
        t \in {"stray", "cut"} }

\* type(4, LE) total-length(4, LE) body total-length(4, LE); trailer is the
\* trailing length written.
RawBlock(type, body, trailer) ==
    Reverse(type) \o P32(Len(body) + 12, "<") \o body \o P32(trailer, "<")

Block(type, body) == RawBlock(type, body, Len(body) + 12)

\* A block whose trailing length is four more than its leading length.
BadBlock(type, body) == RawBlock(type, body, Len(body) + 16)

\* A Section Header body written by a tool of byte order `order`: the tool
\* writes 0x1A2B3C4D in its own order, then version and section length.
ShbBody(order) ==
    (IF order = "<" THEN Reverse(ByteOrderLittle) ELSE Reverse(ByteOrderBig))
        \o P16(1, order) \o P16(0, order) \o [i \in 1..8 |-> 255]

\* link-type(2) reserved(2) snaplen(4)
IdbBody(linktype, snap, order) ==
    P16(linktype, order) \o P16(0, order) \o P32(snap, order)

\* interface-id(4) ts-high(4) ts-low(4) captured-length(4) original-length(4)
\* payload, padded to a multiple of four bytes.
EpbBody(hi, lo, cap, payload, order) ==
    P32(0, order) \o P32(hi, order) \o P32(lo, order) \o P32(cap, order)
        \o P32(60, order) \o payload \o Zeros((4 - (Len(payload) % 4)) % 4)

BlockKinds ==
    { "idb1", "idb2", "epb_ipv4", "epb_trunc", "epb_future", "epb_smallbody",
      "epb_overrun", "unknown", "shb_flip" }

\* What ends the file instead of a further well-framed block: 3 or 7 stray
\* bytes, eight bytes that declare a block longer than the file, eight
\* bytes that declare a block of eight bytes, or a block of some type whose
\* trailing length differs from its leading length.
Terminators ==
    { "stray", "stray7", "junk", "runt", "idb_small", "bad_shb", "bad_idb",
      "bad_epb", "bad_unknown" }

BlockBytes(k, order) ==
    CASE k = "idb1" -> Block(BlockIDB, IdbBody(1, 96, order))
      [] k = "idb2" -> Block(BlockIDB, IdbBody(105, 64, order))
      [] k = "epb_ipv4" ->
            Block(BlockEPB, EpbBody(0, 5, 14, Frame(2048), order))
      [] k = "epb_trunc" -> Block(BlockEPB, EpbBody(0, 9, 2, <<1, 2>>, order))
      [] k = "epb_future" ->
            Block(BlockEPB, EpbBody(67108864, 3, 2, <<1, 2>>, order))
      [] k = "epb_smallbody" -> Block(BlockEPB, Zeros(8))
      [] k = "epb_overrun" ->
            Block(BlockEPB, EpbBody(0, 4, 12, <<1, 2, 3, 4>>, order))
      [] k = "unknown" -> Block(<<0, 0, 0, 5>>, <<9, 9, 9, 9>>)
      [] k = "shb_flip" -> Block(MagicPcapNg, ShbBody(Flip(order)))
      [] k = "stray" -> <<1, 2, 3>>
      [] k = "stray7" -> <<6, 0, 0, 0, 28, 0, 0>>
      [] k = "idb_small" -> Block(BlockIDB, Zeros(4))
      [] k = "junk" -> <<5, 0, 0, 0, 64, 0, 0, 0>>
      [] k = "runt" -> <<5, 0, 0, 0, 8, 0, 0, 0>>
      [] k = "bad_shb" -> BadBlock(MagicPcapNg, ShbBody(order))
      [] k = "bad_idb" -> BadBlock(BlockIDB, IdbBody(1, 96, order))
      [] k = "bad_epb" ->
            BadBlock(BlockEPB, EpbBody(0, 5, 14, Frame(2048), order))
      [] OTHER -> BadBlock(<<0, 0, 0, 5>>, <<9, 9, 9, 9>>)

\* The blocks of one file, each written in the byte order of its section.
RECURSIVE Blocks(_, _)
Blocks(ks, order) ==
    IF ks = <<>> THEN <<>>
    ELSE BlockBytes(Head(ks), order)
            \o Blocks(Tail(ks), IF Head(ks) = "shb_flip" THEN Flip(order) ELSE order)

NgFile(order, ks) == Block(MagicPcapNg, ShbBody(order)) \o Blocks(ks, order)

NgFiles ==
    { NgFile(o, ks) : o \in {"<", ">"}, ks \in SeqsUpTo(BlockKinds, MaxBlocks) }
    \cup
    { NgFile(o, Append(ks, t)) :
        o \in {"<", ">"}, ks \in SeqsUpTo(BlockKinds, MaxBlocks - 1),
        t \in Terminators }

\* Files that fail before any packet is read: too short to sniff, an unknown
\* magic number, a legacy magic without a full global header, a pcapng
\* magic without a full block, a first Section Header with a bad byte-order
\* magic, with a short body, or with a wrong trailing length.
OddFiles ==
    { <<>>, <<1, 2, 3>>, <<1, 2, 3, 4, 5, 6>>,
      Reverse(MagicLittleMicro) \o Zeros(10),
      Reverse(MagicPcapNg) \o <<12, 0, 0, 0>>,
      Block(MagicPcapNg, <<1, 2, 3, 4>> \o Zeros(12)),
      Block(MagicPcapNg, Reverse(ByteOrderLittle) \o Zeros(4)),
      BadBlock(MagicPcapNg, ShbBody("<")) }

Files == LegacyFiles \cup NgFiles \cup OddFiles

\* ------------------------------------------------------------------- state
VARIABLES
    file_state,     \* "ok", "missing" or "denied": what open(file_path) meets
    data,           \* the bytes of the file
    max_packets,    \* the max_packets argument
    pc,             \* where the call is
    pos,            \* position of the file handle (legacy parser)
    offset,         \* offset of the next block (pcapng parser)
    endian,         \* "<" or ">", "unbound" before it is assigned
    ts_resolution,  \* "micro" or "nano" (legacy parser)
    snaplen,        \* legacy global header fields
    network,
    total_packets,
    total_bytes,
    earliest_ts,
    latest_ts,
    ether_types,    \* the Counter: <<key, count>> pairs in insertion order
    sample_entries,
    observed,       \* the packets decoded so far, in capture order
    timestamp,      \* the local `timestamp`, <<"unbound">> before assignment
    snaplen_map,    \* the dicts keyed 0, 1, ...: sequences
    linktype_map,
    summary,        \* what the parser returned
    exc,            \* str(exc) of the exception being propagated
    result          \* what analyze_pcap returned

vars ==
    << file_state, data, max_packets, pc, pos, offset, endian, ts_resolution,
       snaplen, network, total_packets, total_bytes, earliest_ts, latest_ts,
       ether_types, sample_entries, observed, timestamp, snaplen_map,
       linktype_map, summary, exc, result >>

parseVars ==
    << pos, offset, endian, ts_resolution, snaplen, network, total_packets,
       total_bytes, earliest_ts, latest_ts, ether_types, sample_entries,
       observed, timestamp, snaplen_map, linktype_map >>

inputVars == << file_state, data, max_packets >>

Unbound == <<"unbound">>

NoSummary == [tag |-> "none"]

\* A parser's return value: an error string, or the triple.
ErrorString(text) == [tag |-> "str", text |-> text]

Init ==
    /\ file_state \in {"ok", "missing", "denied"}
    /\ data \in (IF file_state = "ok" THEN Files ELSE {<<>>})
    /\ max_packets \in (IF file_state = "ok" THEN 0..MaxSampleArg ELSE {0})
    /\ pc = "start"
    /\ pos = 0
    /\ offset = 0
    /\ endian = "unbound"
    /\ ts_resolution = "unbound"
    /\ snaplen = 0
    /\ network = 0
    /\ total_packets = 0
    /\ total_bytes = 0
    /\ earliest_ts = None
    /\ latest_ts = None
    /\ ether_types = <<>>
    /\ sample_entries = <<>>
    /\ observed = <<>>
    /\ timestamp = Unbound
    /\ snaplen_map = <<>>
    /\ linktype_map = <<>>
    /\ summary = NoSummary
    /\ exc = <<>>
    /\ result = <<>>

\* ------------------------------------------------------ shared computations
\* A tick count is the pair <<hi, lo>> of value hi * 2^32 + lo.
TickLess(a, b) == a[1] < b[1] \/ (a[1] = b[1] /\ a[2] < b[2])

TickSub(a, b) == <<a[1] - b[1], a[2] - b[2]>>

TickNegative(d) == d[1] < 0 \/ (d[1] = 0 /\ d[2] < 0)

\* if earliest_ts is None or ts_float < earliest_ts: earliest_ts = ts_float
NextEarliest(e, ts) == IF e = None \/ TickLess(ts, e) THEN ts ELSE e

\* if latest_ts is None or ts_float > latest_ts: latest_ts = ts_float
NextLatest(l, ts) == IF l = None \/ TickLess(l, ts) THEN ts ELSE l

\* Mutant: the operands of the subtraction are swapped.
Duration_Swapped(e, l) ==
    IF e # None /\ l # None
    THEN (IF TickNegative(TickSub(e, l)) THEN <<0, 0>> ELSE TickSub(e, l))
    ELSE <<0, 0>>

\* duration = 0.0, then max(0.0, latest_ts - earliest_ts) when both are set.
Duration(e, l) ==
    IF e # None /\ l # None
    THEN (IF TickNegative(TickSub(l, e)) THEN <<0, 0>> ELSE TickSub(l, e))
    ELSE <<0, 0>>

\* Mutant: the count of a key is set to 1 each time the key is seen.
CounterInc_Overwrite(c, key) ==
    IF \E i \in 1..Len(c) : c[i][1] = key
    THEN [i \in 1..Len(c) |-> IF c[i][1] = key THEN <<key, 1>> ELSE c[i]]
    ELSE Append(c, <<key, 1>>)

\* Counter[key] += 1: a new key is inserted last, with count 1.
CounterInc(c, key) ==
    IF \E i \in 1..Len(c) : c[i][1] = key
    THEN [i \in 1..Len(c) |-> IF c[i][1] = key THEN <<key, c[i][2] + 1>> ELSE c[i]]
    ELSE Append(c, <<key, 1>>)

\* Bucket of a packet: the EtherType at payload bytes 12..13 read in network
\* order ("!H") when captured_len >= 14, else "<truncated>".
Classify(captured_len, packet_data) ==
    IF captured_len >= 14
    THEN EtherKey(U16(Slice(packet_data, 12, 14), ">"))
    ELSE TruncatedKey

\* Mutant: entries of equal count are ordered by their code.
RankOf_ByCode(c, i) ==
    Cardinality({j \in 1..Len(c) :
        c[j][2] > c[i][2]
            \/ (c[j][2] = c[i][2] /\ c[j][1].code < c[i][1].code)})

\* Number of entries of c that sorted(..., reverse=True) puts ahead of
\* entry i: those of a larger count, and those of an equal count that were
\* inserted earlier.
RankOf(c, i) ==
    Cardinality({j \in 1..Len(c) :
        c[j][2] > c[i][2] \/ (c[j][2] = c[i][2] /\ j < i)})

\* Counter.most_common(n): the n entries of largest count, largest first,
\* entries of equal count in insertion order.
MostCommon(c, n) ==
    [r \in 1..Min(n, Len(c)) |-> c[CHOOSE i \in 1..Len(c) : RankOf(c, i) = r - 1]]

HexDigit(d) ==
    <<"0", "1", "2", "3", "4", "5", "6", "7", "8", "9",
      "A", "B", "C", "D", "E", "F">>[d + 1]

\* _describe_ethertype: a string key is its own label, a listed code has its
\* description, any other code is "0x" and four upper-case hex digits.
DescribeEthertype(key) ==
    IF key.isstr THEN <<"<truncated>">>
    ELSE CASE key.code = 2048 -> <<"0x0800 (IPv4)">>
           [] key.code = 2054 -> <<"0x0806 (ARP)">>
           [] key.code = 2114 -> <<"0x0842 (Wake-on-LAN)">>
           [] key.code = 8947 -> <<"0x22F3 (IETF TRILL)">>
           [] key.code = 24579 -> <<"0x6003 (DECnet)">>
           [] key.code = 32821 -> <<"0x8035 (RARP)">>
           [] key.code = 32923 -> <<"0x809B (Appletalk)">>
           [] key.code = 33011 -> <<"0x80F3 (AARP)">>
           [] key.code = 33024 -> <<"0x8100 (VLAN Tagged)">>
           [] key.code = 34525 -> <<"0x86DD (IPv6)">>
           [] key.code = 34824 -> <<"0x8808 (Ethernet Flow Control)">>
           [] key.code = 34825 -> <<"0x8809 (Ethernet Slow Protocols)">>
           [] key.code = 34887 -> <<"0x8847 (MPLS Unicast)">>
           [] key.code = 34888 -> <<"0x8848 (MPLS Multicast)">>
           [] key.code = 34915 -> <<"0x8863 (PPPoE Discovery)">>
           [] key.code = 34916 -> <<"0x8864 (PPPoE Session)">>
           [] key.code = 34984 -> <<"0x88A8 (Q-in-Q)">>
           [] key.code = 35020 -> <<"0x88CC (LLDP)">>
           [] key.code = 35045 -> <<"0x88E5 (MACsec)">>
           [] key.code = 35063 -> <<"0x88F7 (PTP)">>
           [] key.code = 35078 -> <<"0x8906 (Fibre Channel over Ethernet)">>
           [] key.code = 35092 -> <<"0x8914 (FCoE Initialization)">>
           [] key.code = 37120 -> <<"0x9100 (VLAN Tagged - double tagged)">>
           [] OTHER ->
                <<"0x", HexDigit((key.code \div 4096) % 16),
                  HexDigit((key.code \div 256) % 16),
                  HexDigit((key.code \div 16) % 16), HexDigit(key.code % 16)>>

\* human_ether: "- {label}: {count} packet(s)" for each of most_common(5).
HumanEther(c) ==
    LET top == MostCommon(c, TopCount)
    IN  [i \in 1..Len(top) |-> <<DescribeEthertype(top[i][1]), top[i][2]>>]

\* The histogram section: the joined lines, or the placeholder when there
\* are none.
EtherSection(c) ==
    LET human_ether == HumanEther(c)
    IN  IF human_ether # <<>>
        THEN [placeholder |-> FALSE, lines |-> human_ether]
        ELSE [placeholder |-> TRUE, lines |-> <<NoEtherTypeText>>]

\* The sample section: the joined entries, or the placeholder when empty.
SampleSection(entries) ==
    IF entries # <<>>
    THEN [placeholder |-> FALSE, lines |-> entries]
    ELSE [placeholder |-> TRUE, lines |-> <<NoSamplesText>>]

\* Ties of n / d go to the even quotient, as in datetime and "%.6f".
RoundDiv(n, d) ==
    IF 2 * (n % d) > d \/ (2 * (n % d) = d /\ (n \div d) % 2 = 1)
    THEN n \div d + 1
    ELSE n \div d

\* A tick count in microseconds, as isoformat() and ":.6f" print it.
ToMicro(t, resolution) ==
    IF resolution = "nano" THEN <<t[1], RoundDiv(t[2], 1000)>> ELSE t

\* datetime.fromtimestamp raises past 9999-12-31T23:59:59.999999, which is
\* 58999820 * 2^32 + 3430113279 microseconds.
YearOutOfRange(t) == t[1] > DatetimeMaxHigh

\* ---------------------------------------------------------- analyze_pcap
\* Mutant: every magic number that is not pcapng's goes to the legacy parser.
IsLegacyMagic_Fallback(magic_number) == magic_number # MagicPcapNg

\* magic_number in (0xA1B2C3D4, 0xD4C3B2A1, 0xA1B23C4D, 0x4D3CB2A1)
IsLegacyMagic(magic_number) ==
    magic_number \in
        {MagicLittleMicro, MagicBigMicro, MagicLittleNano, MagicBigNano}

\* open(), the 4-byte peek and the choice of the parser.
AnalyzeOpen ==
    /\ pc = "start"
    /\ IF file_state = "missing"
       THEN /\ result' = MsgNotFound
            /\ pc' = "done"
            /\ pos' = pos
       ELSE IF file_state = "denied"
       THEN /\ result' = MsgPermission
            /\ pc' = "done"
            /\ pos' = pos
       ELSE IF Len(Slice(data, 0, 4)) < 4
       THEN /\ result' = MsgFileTooSmall
            /\ pc' = "done"
            /\ pos' = Len(data)
       ELSE IF IsLegacyMagic(UnpackI(Slice(data, 0, 4), "<"))
       THEN /\ pc' = "legacy"
            /\ pos' = 0
            /\ result' = result
       ELSE IF UnpackI(Slice(data, 0, 4), "<") = MagicPcapNg
       THEN /\ pc' = "pcapng"
            /\ pos' = 0
            /\ result' = result
       ELSE /\ result' = MsgUnsupportedFormat
            /\ pc' = "done"
            /\ pos' = 4
    /\ UNCHANGED << inputVars, offset, endian, ts_resolution, snaplen, network,
                    total_packets, total_bytes, earliest_ts, latest_ts,
                    ether_types, sample_entries, observed, timestamp,
                    snaplen_map, linktype_map, summary, exc >>

\* The parser returned: an error string is passed on, a triple is rendered
\* into the prompt and sent to the model, whose call answers or raises.
AnalyzeReturn ==
    /\ pc = "returned"
    /\ IF summary.tag = "str" /\ StartsWith(summary.text, ErrorPrefix)
       THEN /\ result' = summary.text
            /\ pc' = "done"
            /\ exc' = exc
       ELSE IF summary.tag = "str"
       THEN /\ pc' = "raised"
            /\ exc' = ExcUnpack
            /\ result' = result
       ELSE \E answered \in BOOLEAN :
            IF answered
            THEN /\ result' = ResponseText
                 /\ pc' = "done"
                 /\ exc' = exc
            ELSE /\ pc' = "raised"
                 /\ exc' = ExcModel
                 /\ result' = result
    /\ UNCHANGED << inputVars, parseVars, summary >>

\* except Exception as exc: return f"Error while processing PCAP: {exc}"
AnalyzeExcept ==
    /\ pc = "raised"
    /\ result' = ExceptPrefix \o exc
    /\ pc' = "done"
    /\ UNCHANGED << inputVars, parseVars, summary, exc >>

\* ----------------------------------------------------- _parse_pcap_legacy
LegacyEndian(magic) ==
    IF magic \in {MagicLittleMicro, MagicLittleNano} THEN "<" ELSE ">"

LegacyResolution(magic) ==
    IF magic \in {MagicLittleMicro, MagicBigMicro} THEN "micro" ELSE "nano"

\* ts_float in ticks of the resolution: ts_sec + ts_subsec / divisor.
LegacyTicks(ts_sec, ts_subsec, resolution) ==
    <<0, ts_sec * (IF resolution = "micro" THEN 1000000 ELSE 1000000000)
            + ts_subsec>>

\* The 24-byte global header and the initial accumulators.
LegacyHeader ==
    /\ pc = "legacy"
    /\ LET global_header == Slice(data, pos, pos + 24)
           magic_number == UnpackI(Slice(global_header, 0, 4), "<")
       IN  /\ pos' = pos + Len(global_header)
           /\ IF Len(global_header) < 24
              THEN /\ summary' = ErrorString(MsgLegacyTooSmall)
                   /\ pc' = "returned"
                   /\ UNCHANGED << endian, ts_resolution, snaplen, network >>
              ELSE IF magic_number \notin
                        {MagicLittleMicro, MagicBigMicro, MagicLittleNano,
                         MagicBigNano}
              THEN /\ summary' = ErrorString(MsgLegacyBadMagic)
                   /\ pc' = "returned"
                   /\ UNCHANGED << endian, ts_resolution, snaplen, network >>
              ELSE /\ endian' = LegacyEndian(magic_number)
                   /\ ts_resolution' = LegacyResolution(magic_number)
                   /\ snaplen' = U32(Slice(global_header, 16, 20),
                                     LegacyEndian(magic_number))
                   /\ network' = U32(Slice(global_header, 20, 24),
                                     LegacyEndian(magic_number))
                   /\ pc' = "legacy_loop"
                   /\ summary' = summary
    /\ total_packets' = 0
    /\ total_bytes' = 0
    /\ earliest_ts' = None
    /\ latest_ts' = None
    /\ ether_types' = <<>>
    /\ sample_entries' = <<>>
    /\ UNCHANGED << inputVars, offset, observed, timestamp, snaplen_map,
                    linktype_map, exc, result >>

\* Whether the legacy loop reads a whole record at the handle position.
LegacyHasRecord ==
    /\ Len(Slice(data, pos, pos + 16)) = 16
    /\ Len(Slice(data, pos + 16,
                 pos + 16 + U32(Slice(data, pos + 8, pos + 12), endian)))
         = U32(Slice(data, pos + 8, pos + 12), endian)

\* Mutant: an incomplete record is reported as an error of the file.
LegacyBreak_Fails ==
    /\ pc = "legacy_loop"
    /\ ~LegacyHasRecord
    /\ pos' = Len(data)
    /\ IF pos < Len(data)
       THEN /\ summary' = ErrorString(MsgLegacyTooSmall)
            /\ pc' = "returned"
       ELSE /\ summary' = summary
            /\ pc' = "legacy_render"
    /\ UNCHANGED << inputVars, offset, endian, ts_resolution, snaplen, network,
                    total_packets, total_bytes, earliest_ts, latest_ts,
                    ether_types, sample_entries, observed, timestamp,
                    snaplen_map, linktype_map, exc, result >>

\* One iteration that breaks: fewer than 16 header bytes, or fewer payload
\* bytes than the captured length.
LegacyBreak ==
    /\ pc = "legacy_loop"
    /\ ~LegacyHasRecord
    /\ pos' = Len(data)
    /\ pc' = "legacy_render"
    /\ UNCHANGED << inputVars, offset, endian, ts_resolution, snaplen, network,
                    total_packets, total_bytes, earliest_ts, latest_ts,
                    ether_types, sample_entries, observed, timestamp,
                    snaplen_map, linktype_map, summary, exc, result >>

\* The sample branch of the legacy loop, which sits in the else branch of
\* the classification: `timestamp` is assigned only under the cap, the
\* append that reads it is not.
LegacyTimestampAfter(captured_len, ts_float) ==
    IF captured_len < 14 /\ Len(sample_entries) < max_packets
    THEN ToMicro(ts_float, ts_resolution)
    ELSE timestamp

\* Mutant: a sample is taken of every packet while the cap allows it.
LegacySamplesAfter_All(captured_len, original_len, packet_data, ts_float) ==
    IF Len(sample_entries) < max_packets
    THEN Append(sample_entries,
                <<ToMicro(ts_float, ts_resolution), captured_len,
                  original_len, Slice(packet_data, 0, 32)>>)
    ELSE sample_entries

LegacySamplesAfter(captured_len, original_len, packet_data, ts_float) ==
    IF captured_len < 14
    THEN Append(sample_entries,
                <<LegacyTimestampAfter(captured_len, ts_float), captured_len,
                  original_len, Slice(packet_data, 0, 32)>>)
    ELSE sample_entries

\* One iteration that decodes a record.
LegacyPacket ==
    /\ pc = "legacy_loop"
    /\ LegacyHasRecord
    /\ LET packet_header == Slice(data, pos, pos + 16)
           ts_sec == U32(Slice(packet_header, 0, 4), endian)
           ts_subsec == U32(Slice(packet_header, 4, 8), endian)
           captured_len == U32(Slice(packet_header, 8, 12), endian)
           original_len == U32(Slice(packet_header, 12, 16), endian)
           packet_data == Slice(data, pos + 16, pos + 16 + captured_len)
           ts_float == LegacyTicks(ts_sec, ts_subsec, ts_resolution)
       IN  /\ pos' = pos + 16 + captured_len
           /\ total_packets' = total_packets + 1
           /\ total_bytes' = total_bytes + captured_len
           /\ earliest_ts' = NextEarliest(earliest_ts, ts_float)
           /\ latest_ts' = NextLatest(latest_ts, ts_float)
           /\ ether_types' =
                CounterInc(ether_types, Classify(captured_len, packet_data))
           /\ observed' =
                Append(observed,
                       [ts |-> ts_float, captured_len |-> captured_len,
                        key |-> Classify(captured_len, packet_data)])
           /\ timestamp' = LegacyTimestampAfter(captured_len, ts_float)
           /\ IF captured_len < 14
                 /\ LegacyTimestampAfter(captured_len, ts_float) = Unbound
              THEN /\ pc' = "raised"
                   /\ exc' = ExcUnboundTimestamp
                   /\ sample_entries' = sample_entries
              ELSE /\ pc' = "legacy_loop"
                   /\ exc' = exc
                   /\ sample_entries' =
                        LegacySamplesAfter(captured_len, original_len,
                                           packet_data, ts_float)
    /\ UNCHANGED << inputVars, offset, endian, ts_resolution, snaplen, network,
                    snaplen_map, linktype_map, summary, result >>

\* Mutant: the zero-packet check is dropped.
NoPacketsFound_Dropped(n) == n < 0

\* if total_packets == 0: return "Error: No packets found in the capture."
NoPacketsFound(n) == n = 0

\* The metadata lines of a summary.
Metadata(capture_type, linktype, snap, resolution) ==
    [ capture_type |-> capture_type,
      linktype |-> linktype,
      snaplen |-> snap,
      total_packets |-> total_packets,
      total_bytes |-> total_bytes,
      duration |-> ToMicro(Duration(earliest_ts, latest_ts), resolution),
      earliest |-> IF earliest_ts # None
                   THEN ToMicro(earliest_ts, resolution) ELSE None,
      latest |-> IF latest_ts # None
                 THEN ToMicro(latest_ts, resolution) ELSE None ]

Triple(metadata) ==
    [ tag |-> "tuple",
      metadata_lines |-> metadata,
      ether_section |-> EtherSection(ether_types),
      sample_section |-> SampleSection(sample_entries) ]

\* What the legacy parser returns after its loop.
LegacySummary ==
    IF NoPacketsFound(total_packets)
    THEN ErrorString(MsgNoPackets)
    ELSE Triple(Metadata("PCAP (legacy)", <<network>>, <<snaplen>>,
                         ts_resolution))

\* After the loop: no packet is an error, else the triple.
LegacyRender ==
    /\ pc = "legacy_render"
    /\ summary' = LegacySummary
    /\ pc' = "returned"
    /\ UNCHANGED << inputVars, parseVars, exc, result >>

\* ----------------------------------------------------------- _parse_pcapng
\* data = handle.read() and the initial accumulators.
NgStart ==
    /\ pc = "pcapng"
    /\ pos' = Len(data)
    /\ offset' = 0
    /\ IF Len(data) < 12
       THEN /\ summary' = ErrorString(MsgNgTooSmall)
            /\ pc' = "returned"
       ELSE /\ summary' = summary
            /\ pc' = "ng_loop"
    /\ total_packets' = 0
    /\ total_bytes' = 0
    /\ earliest_ts' = None
    /\ latest_ts' = None
    /\ ether_types' = <<>>
    /\ sample_entries' = <<>>
    /\ snaplen_map' = <<>>
    /\ linktype_map' = <<>>
    /\ UNCHANGED << inputVars, endian, ts_resolution, snaplen, network,
                    observed, timestamp, exc, result >>

\* The framing fields of the block at offset o, all read little-endian.
BlockTypeAt(o) == UnpackI(Slice(data, o, o + 4), "<")

BlockLengthAt(o) == U32(Slice(data, o + 4, o + 8), "<")

TrailingLengthAt(o) ==
    U32(Slice(data, o + BlockLengthAt(o) - 4, o + BlockLengthAt(o)), "<")

BodyAt(o) == Slice(data, o + 8, o + 8 + (BlockLengthAt(o) - 12))

\* Mutant: the least block length of 12 is not tested.
MalformedAt_NoMinimum(o) == o + BlockLengthAt(o) > Len(data)

\* block_total_length < 12 or offset + block_total_length > total_len
MalformedAt(o) ==
    IF BlockLengthAt(o) < 12 THEN TRUE ELSE o + BlockLengthAt(o) > Len(data)

\* Mutant: the trailing length is compared for Enhanced Packet Blocks only.
MismatchAt_PacketsOnly(o) ==
    BlockTypeAt(o) = BlockEPB /\ TrailingLengthAt(o) # BlockLengthAt(o)

\* trailing_length != block_total_length
MismatchAt(o) == TrailingLengthAt(o) # BlockLengthAt(o)

\* The loop condition holds and the block at offset passes both checks.
NgFramed ==
    /\ pc = "ng_loop"
    /\ offset + 8 <= Len(data)
    /\ (IF MalformedAt(offset) THEN FALSE ELSE ~MismatchAt(offset))

\* An iteration that returns on the framing of the block.
NgFramingError ==
    /\ pc = "ng_loop"
    /\ offset + 8 <= Len(data)
    /\ (IF MalformedAt(offset) THEN TRUE ELSE MismatchAt(offset))
    /\ summary' =
         IF MalformedAt(offset)
         THEN ErrorString(MsgNgMalformed)
         ELSE ErrorString(MsgNgMismatch)
    /\ pc' = "returned"
    /\ UNCHANGED << inputVars, parseVars, exc, result >>

\* Mutant: the two byte-order magics are swapped.
ByteOrderOf_Swapped(byte_order_magic) ==
    IF byte_order_magic = ByteOrderLittle THEN ">"
    ELSE IF byte_order_magic = ByteOrderBig THEN "<"
    ELSE ""

\* The byte order a byte-order magic selects, "" for neither.
ByteOrderOf(byte_order_magic) ==
    IF byte_order_magic = ByteOrderLittle THEN "<"
    ELSE IF byte_order_magic = ByteOrderBig THEN ">"
    ELSE ""

\* Mutant: the byte order is taken from the first Section Header Block only.
NgSectionHeader_FirstOnly ==
    /\ NgFramed
    /\ BlockTypeAt(offset) = MagicPcapNg
    /\ IF Len(BodyAt(offset)) < 12
       THEN /\ summary' = ErrorString(MsgShbTooShort)
            /\ pc' = "returned"
            /\ UNCHANGED << endian, offset >>
       ELSE IF ByteOrderOf(UnpackI(Slice(BodyAt(offset), 0, 4), "<")) = ""
       THEN /\ summary' = ErrorString(MsgByteOrder)
            /\ pc' = "returned"
            /\ UNCHANGED << endian, offset >>
       ELSE /\ endian' =
                 IF endian = "unbound"
                 THEN ByteOrderOf(UnpackI(Slice(BodyAt(offset), 0, 4), "<"))
                 ELSE endian
            /\ offset' = offset + BlockLengthAt(offset)
            /\ UNCHANGED << summary, pc >>
    /\ UNCHANGED << inputVars, pos, ts_resolution, snaplen, network,
                    total_packets, total_bytes, earliest_ts, latest_ts,
                    ether_types, sample_entries, observed, timestamp,
                    snaplen_map, linktype_map, exc, result >>

\* An iteration on a Section Header Block.
NgSectionHeader ==
    /\ NgFramed
    /\ BlockTypeAt(offset) = MagicPcapNg
    /\ IF Len(BodyAt(offset)) < 12
       THEN /\ summary' = ErrorString(MsgShbTooShort)
            /\ pc' = "returned"
            /\ UNCHANGED << endian, offset >>
       ELSE IF ByteOrderOf(UnpackI(Slice(BodyAt(offset), 0, 4), "<")) = ""
       THEN /\ summary' = ErrorString(MsgByteOrder)
            /\ pc' = "returned"
            /\ UNCHANGED << endian, offset >>
       ELSE /\ endian' = ByteOrderOf(UnpackI(Slice(BodyAt(offset), 0, 4), "<"))
            /\ offset' = offset + BlockLengthAt(offset)
            /\ UNCHANGED << summary, pc >>
    /\ UNCHANGED << inputVars, pos, ts_resolution, snaplen, network,
                    total_packets, total_bytes, earliest_ts, latest_ts,
                    ether_types, sample_entries, observed, timestamp,
                    snaplen_map, linktype_map, exc, result >>

\* An iteration on an Interface Description Block: linktype, reserved and
\* snaplen in the section's byte order, recorded under the next index.
NgInterface ==
    /\ NgFramed
    /\ BlockTypeAt(offset) = BlockIDB
    /\ IF Len(BodyAt(offset)) < 8
       THEN /\ summary' = ErrorString(MsgIdbTooShort)
            /\ pc' = "returned"
            /\ UNCHANGED << offset, snaplen_map, linktype_map, exc >>
       ELSE IF endian = "unbound"
       THEN /\ pc' = "raised"
            /\ exc' = ExcUnboundFormat
            /\ UNCHANGED << offset, snaplen_map, linktype_map, summary >>
       ELSE /\ linktype_map' =
                 Append(linktype_map, U16(Slice(BodyAt(offset), 0, 2), endian))
            /\ snaplen_map' =
                 Append(snaplen_map, U32(Slice(BodyAt(offset), 4, 8), endian))
            /\ offset' = offset + BlockLengthAt(offset)
            /\ UNCHANGED << summary, pc, exc >>
    /\ UNCHANGED << inputVars, pos, endian, ts_resolution, snaplen, network,
                    total_packets, total_bytes, earliest_ts, latest_ts,
                    ether_types, sample_entries, observed, timestamp, result >>

\* The fields of the Enhanced Packet body at offset o in byte order e.
EpbField(o, k, e) == U32(Slice(BodyAt(o), 4 * k, 4 * k + 4), e)

\* Mutant: only the length of the body is tested, not the captured length.
EpbSkipped_ShortOnly(o, e) == Len(BodyAt(o)) < 20

\* Body shorter than 20 bytes, or captured length past the body: the block
\* is skipped.
EpbSkipped(o, e) ==
    IF Len(BodyAt(o)) < 20 THEN TRUE
    ELSE 20 + EpbField(o, 3, e) > Len(BodyAt(o))

\* if len(sample_entries) < max_packets: render and append one entry.
NgSamplesAfter(ts_float, captured_len, packet_len, packet_data) ==
    IF Len(sample_entries) < max_packets
    THEN Append(sample_entries,
                <<ToMicro(ts_float, "micro"), captured_len, packet_len,
                  Slice(packet_data, 0, 32)>>)
    ELSE sample_entries

\* An iteration on an Enhanced Packet Block.
NgPacket ==
    /\ NgFramed
    /\ BlockTypeAt(offset) = BlockEPB
    /\ IF Len(BodyAt(offset)) >= 20 /\ endian = "unbound"
       THEN /\ pc' = "raised"
            /\ exc' = ExcUnboundFormat
            /\ UNCHANGED << offset, total_packets, total_bytes, earliest_ts,
                            latest_ts, ether_types, sample_entries, observed >>
       ELSE IF EpbSkipped(offset, endian)
       THEN /\ offset' = offset + BlockLengthAt(offset)
            /\ UNCHANGED << pc, exc, total_packets, total_bytes, earliest_ts,
                            latest_ts, ether_types, sample_entries, observed >>
       ELSE LET ts_high == EpbField(offset, 1, endian)
                ts_low == EpbField(offset, 2, endian)
                captured_len == EpbField(offset, 3, endian)
                packet_len == EpbField(offset, 4, endian)
                packet_data == Slice(BodyAt(offset), 20, 20 + captured_len)
                ts_float == <<ts_high, ts_low>>
            IN  /\ total_packets' = total_packets + 1
                /\ total_bytes' = total_bytes + captured_len
                /\ earliest_ts' = NextEarliest(earliest_ts, ts_float)
                /\ latest_ts' = NextLatest(latest_ts, ts_float)
                /\ ether_types' =
                     CounterInc(ether_types, Classify(captured_len, packet_data))
                /\ observed' =
                     Append(observed,
                            [ts |-> ts_float, captured_len |-> captured_len,
                             key |-> Classify(captured_len, packet_data)])
                /\ IF Len(sample_entries) < max_packets
                      /\ YearOutOfRange(ts_float)
                   THEN /\ pc' = "raised"
                        /\ exc' = ExcYearOutOfRange
                        /\ UNCHANGED << offset, sample_entries >>
                   ELSE /\ sample_entries' =
                             NgSamplesAfter(ts_float, captured_len, packet_len,
                                            packet_data)
                        /\ offset' = offset + BlockLengthAt(offset)
                        /\ UNCHANGED << pc, exc >>
    /\ UNCHANGED << inputVars, pos, endian, ts_resolution, snaplen, network,
                    timestamp, snaplen_map, linktype_map, summary, result >>

\* An iteration on a block of any other type: skipped by its length.
NgOther ==
    /\ NgFramed
    /\ BlockTypeAt(offset) \notin {MagicPcapNg, BlockIDB, BlockEPB}
    /\ offset' = offset + BlockLengthAt(offset)
    /\ UNCHANGED << inputVars, pc, pos, endian, ts_resolution, snaplen,
                    network, total_packets, total_bytes, earliest_ts,
                    latest_ts, ether_types, sample_entries, observed,
                    timestamp, snaplen_map, linktype_map, summary, exc,
                    result >>

\* Mutant: the interface recorded last is reported.
GetFirst_Last(map) == IF Len(map) >= 1 THEN <<map[Len(map)]>> ELSE <<>>

\* linktype_map.get(0, "unknown"): <<value>>, or <<>> for "unknown".
GetFirst(map) == IF Len(map) >= 1 THEN <<map[1]>> ELSE <<>>

\* Mutant: bytes left after the last block are reported as a malformed
\* block.
NgRender_LeftoverFails ==
    /\ pc = "ng_loop"
    /\ ~(offset + 8 <= Len(data))
    /\ IF offset < Len(data)
       THEN /\ summary' = ErrorString(MsgNgMalformed)
            /\ pc' = "returned"
            /\ exc' = exc
       ELSE IF NoPacketsFound(total_packets)
       THEN /\ summary' = ErrorString(MsgNoPackets)
            /\ pc' = "returned"
            /\ exc' = exc
       ELSE IF YearOutOfRange(earliest_ts) \/ YearOutOfRange(latest_ts)
       THEN /\ pc' = "raised"
            /\ exc' = ExcYearOutOfRange
            /\ summary' = summary
       ELSE /\ summary' =
                 Triple(Metadata("PCAPNG", GetFirst(linktype_map),
                                 GetFirst(snaplen_map), "micro"))
            /\ pc' = "returned"
            /\ exc' = exc
    /\ UNCHANGED << inputVars, parseVars, result >>

\* After the loop: no packet is an error; else the triple, whose timestamp
\* lines raise when a timestamp is past year 9999.
NgRender ==
    /\ pc = "ng_loop"
    /\ ~(offset + 8 <= Len(data))
    /\ IF NoPacketsFound(total_packets)
       THEN /\ summary' = ErrorString(MsgNoPackets)
            /\ pc' = "returned"
            /\ exc' = exc
       ELSE IF YearOutOfRange(earliest_ts) \/ YearOutOfRange(latest_ts)
       THEN /\ pc' = "raised"
            /\ exc' = ExcYearOutOfRange
            /\ summary' = summary
       ELSE /\ summary' =
                 Triple(Metadata("PCAPNG", GetFirst(linktype_map),
                                 GetFirst(snaplen_map), "micro"))
            /\ pc' = "returned"
            /\ exc' = exc
    /\ UNCHANGED << inputVars, parseVars, result >>

\* ------------------------------------------------------------ specification
Next ==
    \/ AnalyzeOpen
    \/ AnalyzeReturn
    \/ AnalyzeExcept
    \/ LegacyHeader
    \/ LegacyBreak
    \/ LegacyPacket
    \/ LegacyRender
    \/ NgStart
    \/ NgFramingError
    \/ NgSectionHeader
    \/ NgInterface
    \/ NgPacket
    \/ NgOther
    \/ NgRender

Spec == Init /\ [][Next]_vars

\* ------------------------------------------------- histogram specification
\* The classification and the rendering of the histogram on their own: the
\* packets are reduced to the bucket each one falls in.
HistKeys ==
    { EtherKey(2048), EtherKey(2054), EtherKey(34525), EtherKey(33024),
      EtherKey(4660), TruncatedKey }

HistInit ==
    /\ file_state = "ok"
    /\ data = <<>>
    /\ max_packets = 0
    /\ pc = "hist"
    /\ pos = 0
    /\ offset = 0
    /\ endian = "<"
    /\ ts_resolution = "micro"
    /\ snaplen = 0
    /\ network = 0
    /\ total_packets = 0
    /\ total_bytes = 0
    /\ earliest_ts = None
    /\ latest_ts = None
    /\ ether_types = <<>>
    /\ sample_entries = <<>>
    /\ observed = <<>>
    /\ timestamp = Unbound
    /\ snaplen_map = <<>>
    /\ linktype_map = <<>>
    /\ summary = NoSummary
    /\ exc = <<>>
    /\ result = <<>>

\* One packet falls in bucket k: the Counter update of both loops.
HistObserve ==
    /\ pc = "hist"
    /\ total_packets < MaxObservations
    /\ \E k \in HistKeys :
         /\ ether_types' = CounterInc(ether_types, k)
         /\ observed' =
              Append(observed,
                     [ts |-> <<0, 0>>,
                      captured_len |-> IF k.isstr THEN 0 ELSE 14, key |-> k])
    /\ total_packets' = total_packets + 1
    /\ UNCHANGED << inputVars, pc, pos, offset, endian, ts_resolution, snaplen,
                    network, total_bytes, earliest_ts, latest_ts,
                    sample_entries, timestamp, snaplen_map, linktype_map,
                    summary, exc, result >>

\* The sections are rendered from the Counter.
HistRender ==
    /\ pc = "hist"
    /\ total_packets >= 1
    /\ summary' = LegacySummary
    /\ pc' = "returned"
    /\ UNCHANGED << inputVars, parseVars, exc, result >>

HistNext == HistObserve \/ HistRender

SpecHistogram == HistInit /\ [][HistNext]_vars

\* ------------------------------------------------------------------ claims
\* The parse is over: the parser returned, an exception is on its way to
\* the handler, or analyze_pcap returned.
ParseOver == pc \in {"returned", "raised", "done"}

\* C1 (as claimed): every failing outcome of analyze_pcap, that is every
\* return that is not preceded by a summary triple, is a string that begins
\* with "Error:".
C1_FailuresBeginWithErrorColon ==
    (pc = "done" /\ summary.tag # "tuple") => StartsWith(result, ErrorPrefix)

\* C2: a completed parse returns an error string or a triple whose total
\* packet count is at least 1; with no packet decoded it returns the
\* NoPackets error, never a triple.
C2_NoEmptySummary ==
    /\ summary.tag = "tuple" =>
         /\ summary.metadata_lines.total_packets >= 1
         /\ summary.metadata_lines.total_packets = Len(observed)
    /\ summary.tag = "str" => StartsWith(summary.text, ErrorPrefix)
    /\ (pc = "returned" /\ Len(observed) = 0) => summary.tag = "str"

\* C2 witness: a pcapng parse walked past its Section Header, decoded no
\* packet and returned the NoPackets error.
C2_Witness ==
    /\ pc = "returned"
    /\ offset > 28
    /\ Len(observed) = 0
    /\ summary = ErrorString(MsgNoPackets)

\* The byte order a legacy file is written in, from its first four bytes.
FileOrder ==
    IF SubSeq(data, 1, 4) \in
         {Reverse(MagicLittleMicro), Reverse(MagicLittleNano)}
    THEN "<" ELSE ">"

\* A 4-byte field read little-endian / big-endian, from the bytes alone.
LittleEndian32(b) == ((b[4] * 256 + b[3]) * 256 + b[2]) * 256 + b[1]

BigEndian32(b) == ((b[1] * 256 + b[2]) * 256 + b[3]) * 256 + b[4]

Field32(b, order) == IF order = "<" THEN LittleEndian32(b) ELSE BigEndian32(b)

\* The captured-length fields of the records that fill the file from
\* position p to its end; a -1 marks bytes that are not a complete record.
RECURSIVE RecordLengths(_)
RecordLengths(p) ==
    IF p = Len(data) THEN <<>>
    ELSE IF p + 16 > Len(data) THEN <<-1>>
    ELSE IF p + 16 + Field32(SubSeq(data, p + 9, p + 12), FileOrder) > Len(data)
    THEN <<-1>>
    ELSE <<Field32(SubSeq(data, p + 9, p + 12), FileOrder)>>
            \o RecordLengths(p + 16
                             + Field32(SubSeq(data, p + 9, p + 12), FileOrder))

RECURSIVE SumSeq(_)
SumSeq(q) == IF q = <<>> THEN 0 ELSE Head(q) + SumSeq(Tail(q))

\* The file is a legacy global header followed by N >= 1 records whose
\* payloads are all present, and nothing else.
WholeLegacyCapture ==
    /\ file_state = "ok"
    /\ Len(data) > 24
    /\ SubSeq(data, 1, 4) \in
         {Reverse(MagicLittleMicro), Reverse(MagicBigMicro),
          Reverse(MagicLittleNano), Reverse(MagicBigNano)}
    /\ \A i \in 1..Len(RecordLengths(24)) : RecordLengths(24)[i] >= 0

\* C3 (as claimed): for a legacy capture of a global header and N >= 1
\* complete records the parse yields a summary that reports N packets and
\* the sum of the N captured lengths as total captured bytes.
C3_LegacyTotals ==
    (ParseOver /\ WholeLegacyCapture) =>
        /\ summary.tag = "tuple"
        /\ summary.metadata_lines.total_packets = Len(RecordLengths(24))
        /\ summary.metadata_lines.total_bytes = SumSeq(RecordLengths(24))

ObservedTs == {observed[i].ts : i \in 1..Len(observed)}

\* The resolution the timestamps of a summary are counted in.
SummaryResolution ==
    IF summary.metadata_lines.capture_type = "PCAP (legacy)"
    THEN ts_resolution ELSE "micro"

\* C4: after every decoded packet the earliest and the latest timestamp are
\* timestamps of decoded packets, the least and the greatest of them, so
\* earliest <= latest; a returned summary reports the duration
\* latest - earliest, which is not negative and is 0 after one packet.
C4_TimestampsAndDuration ==
    /\ Len(observed) >= 1 =>
         /\ earliest_ts \in ObservedTs
         /\ latest_ts \in ObservedTs
         /\ ~TickLess(latest_ts, earliest_ts)
         /\ \A t \in ObservedTs :
              ~TickLess(t, earliest_ts) /\ ~TickLess(latest_ts, t)
    /\ summary.tag = "tuple" =>
         /\ summary.metadata_lines.duration =
              ToMicro(TickSub(latest_ts, earliest_ts), SummaryResolution)
         /\ ~TickNegative(summary.metadata_lines.duration)
         /\ summary.metadata_lines.earliest =
              ToMicro(earliest_ts, SummaryResolution)
         /\ summary.metadata_lines.latest =
              ToMicro(latest_ts, SummaryResolution)
         /\ Len(observed) = 1 => summary.metadata_lines.duration = <<0, 0>>

\* C4 witness: a summary of two packets of which the first is the later one.
C4_Witness ==
    /\ summary.tag = "tuple"
    /\ Len(observed) = 2
    /\ observed[1].ts = latest_ts
    /\ TickLess(earliest_ts, latest_ts)
    /\ summary.metadata_lines.duration # <<0, 0>>

\* The first four bytes are none of the five magic numbers.
UnknownMagic ==
    /\ Len(data) >= 4
    /\ SubSeq(data, 1, 4) \notin
         {Reverse(MagicLittleMicro), Reverse(MagicBigMicro),
          Reverse(MagicLittleNano), Reverse(MagicBigNano),
          Reverse(MagicPcapNg)}

\* No parser ran and nothing was aggregated.
NoParserRan ==
    /\ pc \in {"start", "done"}
    /\ summary = NoSummary
    /\ observed = <<>>
    /\ total_packets = 0
    /\ ether_types = <<>>
    /\ sample_entries = <<>>

\* C5: a readable source of fewer than 4 bytes yields the TooSmall error and
\* one whose first 4 bytes are no known magic number yields the
\* UnsupportedFormat error; in both cases no parser runs.
C5_FormatDetection ==
    /\ (file_state = "ok" /\ Len(data) < 4) =>
         /\ NoParserRan
         /\ pc = "done" => result = MsgFileTooSmall
    /\ (file_state = "ok" /\ UnknownMagic) =>
         /\ NoParserRan
         /\ pc = "done" => result = MsgUnsupportedFormat

\* C5 witness: a file of an unknown magic number was refused.
C5_Witness ==
    /\ pc = "done"
    /\ file_state = "ok"
    /\ UnknownMagic
    /\ result = MsgUnsupportedFormat

\* The block at offset o lies within the file and its trailing length
\* differs from its leading length.
TrailerDiffers(o) ==
    /\ o + 8 <= Len(data)
    /\ LittleEndian32(SubSeq(data, o + 5, o + 8)) >= 12
    /\ o + LittleEndian32(SubSeq(data, o + 5, o + 8)) <= Len(data)
    /\ LittleEndian32(SubSeq(data,
                             o + LittleEndian32(SubSeq(data, o + 5, o + 8)) - 3,
                             o + LittleEndian32(SubSeq(data, o + 5, o + 8))))
         # LittleEndian32(SubSeq(data, o + 5, o + 8))

\* C6: whenever the pcapng loop stands at a block whose trailing length
\* differs from its leading length, whatever its type and however many
\* packets were decoded, the parse returns the block-length error and no
\* summary, and analyze_pcap returns that error.
C6_TrailerMismatchFails ==
    /\ [][(pc = "ng_loop" /\ TrailerDiffers(offset)) =>
             (pc' = "returned" /\ summary' = ErrorString(MsgNgMismatch))]_vars
    /\ []((pc = "done" /\ summary = ErrorString(MsgNgMismatch)) =>
             result = MsgNgMismatch)

\* C6 witness: the block-length error was returned after a packet had been
\* decoded, on a block that is not an Enhanced Packet Block.
C6_Witness ==
    /\ pc = "returned"
    /\ summary = ErrorString(MsgNgMismatch)
    /\ Len(observed) >= 1
    /\ TrailerDiffers(offset)
    /\ BlockTypeAt(offset) = BlockIDB

\* C7 (as claimed): with max_packets = 0 and at least one packet decoded, a
\* parse that meets no error of the container succeeds and its sample
\* section is the placeholder.
C7_ZeroCapPlaceholder ==
    (ParseOver /\ max_packets = 0 /\ Len(observed) >= 1 /\ summary.tag # "str")
        => /\ summary.tag = "tuple"
           /\ summary.sample_section.placeholder
           /\ summary.sample_section.lines = <<NoSamplesText>>

ObservedKeys == {observed[i].key : i \in 1..Len(observed)}

CountOf(k) == Cardinality({i \in 1..Len(observed) : observed[i].key = k})

FirstSeen(k) ==
    CHOOSE i \in 1..Len(observed) :
        observed[i].key = k /\ \A j \in 1..(i - 1) : observed[j].key # k

\* For each observed bucket, the number of buckets listed before it: those
\* of a larger count, and those of the same count first observed earlier.
BucketsAhead ==
    LET count == [k \in ObservedKeys |-> CountOf(k)]
        first == [k \in ObservedKeys |-> FirstSeen(k)]
    IN  [k \in ObservedKeys |->
            Cardinality({a \in ObservedKeys :
                \/ count[a] > count[k]
                \/ count[a] = count[k] /\ first[a] < first[k]})]

\* C8: the histogram section lists the buckets of the highest counts, at
\* most 5, in descending order of count, buckets of equal count in the order
\* in which they were first observed, each with its label and its count.
C8_TopFiveStable ==
    summary.tag = "tuple" =>
        /\ ~summary.ether_section.placeholder
        /\ Len(summary.ether_section.lines) <= 5
        /\ Len(summary.ether_section.lines)
             = Min(5, Cardinality(ObservedKeys))
        /\ LET ahead == BucketsAhead
           IN  \A k \in ObservedKeys :
                 ahead[k] < Len(summary.ether_section.lines) =>
                   summary.ether_section.lines[ahead[k] + 1]
                     = <<DescribeEthertype(k), CountOf(k)>>

\* C8 witness: six buckets of one packet each, 0x86DD observed first and
\* 0x0800 second: 0x86DD is listed first and the sixth bucket is left out.
C8_Witness ==
    /\ summary.tag = "tuple"
    /\ Cardinality(ObservedKeys) = 6
    /\ Len(observed) = 6
    /\ observed[1].key = EtherKey(34525)
    /\ observed[2].key = EtherKey(2048)
    /\ Len(summary.ether_section.lines) = 5
    /\ summary.ether_section.lines[1] = <<<<"0x86DD (IPv6)">>, 1>>
    /\ summary.ether_section.lines[2] = <<<<"0x0800 (IPv4)">>, 1>>

\* The byte order selected by the last Section Header Block that lies
\* before offset o, walking the blocks from position p.
RECURSIVE SectionOrder(_, _, _)
SectionOrder(p, o, cur) ==
    IF p >= o THEN cur
    ELSE SectionOrder(
            p + LittleEndian32(SubSeq(data, p + 5, p + 8)), o,
            IF SubSeq(data, p + 1, p + 4) # Reverse(MagicPcapNg) THEN cur
            ELSE IF SubSeq(data, p + 9, p + 12) = <<77, 60, 43, 26>> THEN "<"
            ELSE IF SubSeq(data, p + 9, p + 12) = <<26, 43, 60, 77>> THEN ">"
            ELSE cur)

\* The block at offset o is well framed, of the type whose little-endian
\* bytes are t, with a body of at least n bytes.
FramedBlock(o, t, n) ==
    /\ pc = "ng_loop"
    /\ o + 8 <= Len(data)
    /\ LittleEndian32(SubSeq(data, o + 5, o + 8)) >= 12 + n
    /\ o + LittleEndian32(SubSeq(data, o + 5, o + 8)) <= Len(data)
    /\ ~TrailerDiffers(o)
    /\ SubSeq(data, o + 1, o + 4) = t

\* C9: an Interface Description Block and an Enhanced Packet Block are
\* decoded in the byte order of the Section Header Block they follow,
\* big-endian after 0x4D3C2B1A and little-endian after 0x1A2B3C4D (bytes
\* 1A 2B 3C 4D and 4D 3C 2B 1A in the file); a Section Header Block with any
\* other byte-order magic fails the parse with the byte-order error.
C9_SectionByteOrder ==
    /\ [][FramedBlock(offset, <<1, 0, 0, 0>>, 8) =>
            LET order == SectionOrder(0, offset, "none")
                body == SubSeq(data, offset + 9, offset + 16)
            IN  /\ order \in {"<", ">"}
                /\ linktype_map' =
                     Append(linktype_map,
                            IF order = ">" THEN body[1] * 256 + body[2]
                            ELSE body[2] * 256 + body[1])
                /\ snaplen_map' =
                     Append(snaplen_map, Field32(SubSeq(body, 5, 8), order))]_vars
    /\ [][FramedBlock(offset, <<6, 0, 0, 0>>, 20) =>
            LET order == SectionOrder(0, offset, "none")
                body ==
                    SubSeq(data, offset + 9,
                           offset + LittleEndian32(
                                        SubSeq(data, offset + 5, offset + 8)) - 4)
                cap == Field32(SubSeq(body, 13, 16), order)
            IN  /\ order \in {"<", ">"}
                /\ IF 20 + cap > Len(body)
                   THEN observed' = observed
                   ELSE observed' =
                          Append(observed,
                                 [ts |-> <<Field32(SubSeq(body, 5, 8), order),
                                           Field32(SubSeq(body, 9, 12), order)>>,
                                  captured_len |-> cap,
                                  key |-> IF cap >= 14
                                          THEN EtherKey(body[33] * 256 + body[34])
                                          ELSE TruncatedKey])]_vars
    /\ [][(/\ FramedBlock(offset, Reverse(MagicPcapNg), 12)
           /\ SubSeq(data, offset + 9, offset + 12)
                \notin {<<77, 60, 43, 26>>, <<26, 43, 60, 77>>})
            => (pc' = "returned" /\ summary' = ErrorString(MsgByteOrder))]_vars

\* C9 witness: in a section whose header holds 0x4D3C2B1A an interface and a
\* packet were decoded, the link type 1 and the captured length 14 from
\* big-endian fields.
C9_Witness ==
    /\ pc = "ng_loop"
    /\ SubSeq(data, 9, 12) = <<26, 43, 60, 77>>
    /\ endian = ">"
    /\ linktype_map = <<1>>
    /\ Len(observed) = 1
    /\ observed[1].captured_len = 14
    /\ SubSeq(data, 37, 38) = <<0, 1>>

\* C10 (as claimed): at every point of a parse and in what it returns, the
\* number of retained sample entries is at most max_packets.
C10_SamplesWithinCap == Len(sample_entries) <= max_packets

\* The Enhanced Packet Block at offset o is well framed and is one the
\* parser is to skip: its body is shorter than 20 bytes, or the captured
\* length it declares (in the byte order of its section) ends past its body.
SkippedPacketBlock(o) ==
    /\ FramedBlock(o, <<6, 0, 0, 0>>, 0)
    /\ LET body ==
               SubSeq(data, o + 9,
                      o + LittleEndian32(SubSeq(data, o + 5, o + 8)) - 4)
       IN  IF Len(body) < 20 THEN TRUE
           ELSE 20 + Field32(SubSeq(body, 13, 16),
                             SectionOrder(0, o, "none")) > Len(body)

\* C11: an Enhanced Packet Block whose body is shorter than 20 bytes or
\* whose captured length ends past its body is skipped: the packet count,
\* the byte total, the earliest and latest timestamps, the histogram and the
\* samples are unchanged, the loop goes on at the next block, and nothing is
\* returned or raised on that block.
C11_BadPacketBlockSkipped ==
    [][SkippedPacketBlock(offset) =>
         /\ offset' = offset + LittleEndian32(SubSeq(data, offset + 5, offset + 8))
         /\ pc' = "ng_loop"
         /\ UNCHANGED << total_packets, total_bytes, earliest_ts, latest_ts,
                         ether_types, sample_entries, observed, summary,
                         exc >>]_vars

\* C11 witness: the block after the Section Header declared 12 captured
\* bytes in a body that holds 4, the loop went past it, and the block after
\* it was decoded as the first packet.
C11_Witness ==
    /\ pc = "ng_loop"
    /\ SkippedPacketBlock(28)
    /\ Len(SubSeq(data, 37, 28 + LittleEndian32(SubSeq(data, 33, 36)) - 4)) >= 20
    /\ offset > 28 + LittleEndian32(SubSeq(data, 33, 36))
    /\ total_packets = 1
    /\ Len(observed) = 1
    /\ observed[1].captured_len = 14

\* The file begins with one of the four legacy magic numbers and holds a
\* whole global header.
LegacyStream ==
    /\ file_state = "ok"
    /\ Len(data) >= 24
    /\ SubSeq(data, 1, 4) \in
         {Reverse(MagicLittleMicro), MagicLittleMicro,
          Reverse(MagicLittleNano), MagicLittleNano}

\* Ticks per second of a legacy file, from its first four bytes.
FileDivisor ==
    IF SubSeq(data, 1, 4) \in {Reverse(MagicLittleMicro), MagicLittleMicro}
    THEN 1000000 ELSE 1000000000

\* A whole record lies at position p of the byte sequence d: 16 header
\* bytes and as many payload bytes as its captured-length field declares.
WholeRecordAt(d, p) ==
    IF p + 16 > Len(d) THEN FALSE
    ELSE p + 16 + Field32(SubSeq(d, p + 9, p + 12), FileOrder) <= Len(d)

\* The position that follows the whole records of d that begin at p.
RECURSIVE CompleteEnd(_, _)
CompleteEnd(d, p) ==
    IF ~WholeRecordAt(d, p) THEN p
    ELSE CompleteEnd(d, p + 16 + Field32(SubSeq(d, p + 9, p + 12), FileOrder))

\* The packets of the whole records of d from position p on, in order.
RECURSIVE CompleteRecords(_, _)
CompleteRecords(d, p) ==
    IF ~WholeRecordAt(d, p) THEN <<>>
    ELSE LET cap == Field32(SubSeq(d, p + 9, p + 12), FileOrder)
         IN  << [ts |-> <<0, Field32(SubSeq(d, p + 1, p + 4), FileOrder)
                                * FileDivisor
                              + Field32(SubSeq(d, p + 5, p + 8), FileOrder)>>,
                 captured_len |-> cap,
                 key |-> IF cap >= 14
                         THEN EtherKey(d[p + 29] * 256 + d[p + 30])
                         ELSE TruncatedKey] >>
               \o CompleteRecords(d, p + 16 + cap)

\* The stream with its incomplete trailing record removed.
WithoutIncompleteRecord == SubSeq(data, 1, CompleteEnd(data, 24))

\* C12: an incomplete trailing record (fewer than 16 header bytes, or fewer
\* payload bytes than its captured length declares) ends the legacy loop
\* without an error and without touching an accumulator; the packets the
\* parse has decoded when the loop ends are exactly the records of the
\* stream with the incomplete record removed, and the parser returns what
\* those records alone give: their count and byte total, or the NoPackets
\* error when there is none.
C12_IncompleteRecordDropped ==
    /\ [][(pc = "legacy_loop" /\ ~WholeRecordAt(data, pos)) =>
            /\ pc' = "legacy_render"
            /\ UNCHANGED << total_packets, total_bytes, earliest_ts,
                            latest_ts, ether_types, sample_entries, observed,
                            summary, exc >>]_vars
    /\ [](pc = "legacy_render" =>
            /\ observed = CompleteRecords(WithoutIncompleteRecord, 24)
            /\ total_packets = Len(observed))
    /\ []((pc = "returned" /\ LegacyStream /\ total_packets = 0) =>
            summary = ErrorString(MsgNoPackets))
    /\ []((pc = "returned" /\ LegacyStream /\ total_packets > 0) =>
            /\ summary.tag = "tuple"
            /\ summary.metadata_lines.total_packets
                 = Len(CompleteRecords(WithoutIncompleteRecord, 24))
            /\ summary.metadata_lines.total_bytes
                 = CompleteEnd(data, 24) - 24
                     - 16 * Len(CompleteRecords(WithoutIncompleteRecord, 24)))

\* C12 witness: a record header that declares more payload than the file
\* holds followed a whole record; the parser returned the summary of that
\* one record.
C12_Witness ==
    /\ pc = "returned"
    /\ LegacyStream
    /\ Len(data) >= CompleteEnd(data, 24) + 16
    /\ CompleteEnd(data, 24) > 24
    /\ Len(observed) = 1
    /\ summary.tag = "tuple"
    /\ summary.metadata_lines.total_packets = 1

\* C13: in the legacy parser a packet whose captured length is 14 or more
\* never adds a sample entry, so a sample entry is only ever added by a
\* packet shorter than 14 bytes; a legacy capture whose packets all hold 14
\* bytes or more yields the placeholder sample section whatever max_packets
\* is.
C13_LegacySamplesOnlyOfShortPackets ==
    /\ [][(pc = "legacy_loop" /\ sample_entries' # sample_entries) =>
            /\ WholeRecordAt(data, pos)
            /\ Field32(SubSeq(data, pos + 9, pos + 12), FileOrder) < 14]_vars
    /\ []((/\ pc = "returned"
           /\ LegacyStream
           /\ summary.tag = "tuple"
           /\ \A i \in 1..Len(observed) : observed[i].captured_len >= 14)
            => /\ sample_entries = <<>>
               /\ summary.sample_section = SampleSection(<<>>)
               /\ summary.sample_section.lines = <<NoSamplesText>>)

\* C13 witness: a legacy capture of two packets of 14 bytes, parsed with
\* max_packets = 2, returned the placeholder sample section.
C13_Witness ==
    /\ pc = "returned"
    /\ LegacyStream
    /\ max_packets = 2
    /\ Len(observed) = 2
    /\ \A i \in 1..2 : observed[i].captured_len = 14
    /\ summary.tag = "tuple"
    /\ summary.sample_section.lines = <<NoSamplesText>>

\* The byte order selected by the Section Header Block the file begins with.
FirstSectionOrder ==
    IF SubSeq(data, 9, 12) = <<77, 60, 43, 26>> THEN "<"
    ELSE IF SubSeq(data, 9, 12) = <<26, 43, 60, 77>> THEN ">"
    ELSE "none"

\* C14 (as claimed): once derived, the byte order and the timestamp
\* resolution of a parse never change, and in a pcapng parse every
\* Interface Description Block is decoded in the byte order set by the first
\* Section Header Block, whatever blocks lie between.
C14_ProfileDerivedOnce ==
    /\ [][(endian # "unbound" => endian' = endian)
          /\ (ts_resolution # "unbound" => ts_resolution' = ts_resolution)]_vars
    /\ [][FramedBlock(offset, <<1, 0, 0, 0>>, 8) =>
            snaplen_map' =
              Append(snaplen_map,
                     Field32(SubSeq(data, offset + 13, offset + 16),
                             FirstSectionOrder))]_vars

\* C14 (amended): the legacy profile is derived once from the magic number
\* and never changes; in a pcapng parse the byte order changes only on a
\* Section Header Block, each of which sets it anew, so that at every block
\* the byte order in use is the one selected by the nearest Section Header
\* Block before it.
C14_ProfileChangesOnlyAtSectionHeader ==
    /\ [][(ts_resolution # "unbound" => ts_resolution' = ts_resolution)
          /\ ((endian # "unbound" /\ endian' # endian) =>
                /\ FramedBlock(offset, Reverse(MagicPcapNg), 12)
                /\ endian' = SectionOrder(0, offset', "none"))]_vars
    /\ []((pc = "ng_loop" /\ offset > 0) =>
             endian = SectionOrder(0, offset, "none"))
    /\ []((pc = "legacy_loop") =>
             (endian = FileOrder /\ ts_resolution \in {"micro", "nano"}))

\* C14 witness: a second Section Header Block selected the other byte order
\* than the first, and the Enhanced Packet Block after it was decoded, in
\* the byte order of the second.
C14_Witness ==
    /\ pc = "ng_loop"
    /\ Len(data) >= 60
    /\ SubSeq(data, 1, 8) = Reverse(MagicPcapNg) \o <<28, 0, 0, 0>>
    /\ SubSeq(data, 29, 36) = Reverse(MagicPcapNg) \o <<28, 0, 0, 0>>
    /\ SubSeq(data, 57, 60) = <<6, 0, 0, 0>>
    /\ offset > 56
    /\ endian # FirstSectionOrder
    /\ endian = SectionOrder(0, 56, "none")
    /\ Len(observed) = 1
    /\ observed[1].captured_len = 14

\* The offset of the first Interface Description Block at or after p, in
\* file order; -1 when the blocks from p on hold none.
RECURSIVE FirstInterfaceFrom(_)
FirstInterfaceFrom(p) ==
    IF p + 8 > Len(data) THEN -1
    ELSE IF SubSeq(data, p + 1, p + 4) = <<1, 0, 0, 0>> THEN p
    ELSE FirstInterfaceFrom(p + LittleEndian32(SubSeq(data, p + 5, p + 8)))

\* A pcapng parse returned a summary.
NgSucceeded ==
    /\ pc = "returned"
    /\ summary.tag = "tuple"
    /\ summary.metadata_lines.capture_type = "PCAPNG"

\* C15: a successful pcapng parse reports the link-layer type and the
\* snapshot length of the first Interface Description Block of the file,
\* however many follow and wherever the packets lie; with no Interface
\* Description Block in the file it reports both as "unknown" (the empty
\* tuple) and still counts the packets.
C15_FirstInterfaceReported ==
    NgSucceeded =>
        LET first == FirstInterfaceFrom(0)
            order == SectionOrder(0, first, "none")
        IN  /\ summary.metadata_lines.total_packets = Len(observed)
            /\ Len(observed) >= 1
            /\ IF first = -1
               THEN /\ summary.metadata_lines.linktype = <<>>
                    /\ summary.metadata_lines.snaplen = <<>>
               ELSE /\ summary.metadata_lines.linktype =
                         << IF order = ">"
                            THEN data[first + 9] * 256 + data[first + 10]
                            ELSE data[first + 10] * 256 + data[first + 9] >>
                    /\ summary.metadata_lines.snaplen =
                         << Field32(SubSeq(data, first + 13, first + 16),
                                    order) >>

\* C15 witness: a packet came first, then an interface of link type 105 and
\* snapshot length 64, then one of link type 1; 105 and 64 were reported.
C15_Witness ==
    /\ NgSucceeded
    /\ SubSeq(data, 29, 32) = <<6, 0, 0, 0>>
    /\ FirstInterfaceFrom(0) > 28
    /\ linktype_map = <<105, 1>>
    /\ snaplen_map = <<64, 96>>
    /\ summary.metadata_lines.linktype = <<105>>
    /\ summary.metadata_lines.snaplen = <<64>>
    /\ summary.metadata_lines.total_packets = 1

\* How far the call is from its return, by the place it is at.
Rank(p) ==
    CASE p = "start" -> 7
      [] p \in {"legacy", "pcapng"} -> 6
      [] p \in {"legacy_loop", "ng_loop"} -> 5
      [] p = "legacy_render" -> 4
      [] p = "returned" -> 3
      [] p = "raised" -> 2
      [] OTHER -> 0

\* The bytes the running loop has not consumed yet.
BytesLeft ==
    CASE pc = "legacy_loop" -> Len(data) - pos
      [] pc = "ng_loop" -> Len(data) - offset
      [] OTHER -> 0

\* C16: every parse ends: each iteration of the legacy loop consumes at
\* least 16 bytes or leaves the loop; each iteration of the pcapng loop
\* leaves the loop with an error or moves the offset on by the block's
\* total length, which is at least 12, also when it skips an Enhanced
\* Packet Block; every step brings the call nearer to its return (the place
\* moves on, or fewer bytes are left, never fewer than none), and what a
\* parser returns is a summary or an error string.
C16_EveryParseEnds ==
    /\ [][/\ pc = "legacy_loop" =>
               (pc' # "legacy_loop" \/ pos' >= pos + 16)
          /\ pc = "ng_loop" =>
               \/ pc' \in {"returned", "raised"}
               \/ /\ pc' = "ng_loop"
                  /\ offset' = offset
                       + LittleEndian32(SubSeq(data, offset + 5, offset + 8))
                  /\ LittleEndian32(SubSeq(data, offset + 5, offset + 8)) >= 12
          /\ \/ Rank(pc') < Rank(pc)
             \/ (Rank(pc') = Rank(pc) /\ BytesLeft' < BytesLeft)]_vars
    /\ [](BytesLeft >= 0)
    /\ [](pc = "returned" => summary.tag \in {"tuple", "str"})

\* C16 witness: the pcapng loop skipped an Enhanced Packet Block with a body
\* of 8 bytes, moving on by its 20 bytes, and the parse ran to its return.
C16_Witness ==
    /\ pc = "done"
    /\ Len(data) >= 48
    /\ SubSeq(data, 29, 36) = <<6, 0, 0, 0, 20, 0, 0, 0>>
    /\ offset >= 48
    /\ Len(data) - offset < 8
    /\ result # <<>>

\* The count a Counter holds for key k, 0 for a key it does not hold.
RECURSIVE BucketCount(_, _)
BucketCount(c, k) ==
    IF c = <<>> THEN 0
    ELSE (IF Head(c)[1] = k THEN Head(c)[2] ELSE 0) + BucketCount(Tail(c), k)

\* The sum of all counts of a Counter.
RECURSIVE BucketTotal(_)
BucketTotal(c) == IF c = <<>> THEN 0 ELSE Head(c)[2] + BucketTotal(Tail(c))

BucketKeys(c) == {c[i][1] : i \in 1..Len(c)}

\* The captured length of the packet the loop stands at, from the bytes of
\* the file: the third field of the record header (legacy), the fourth
\* field of the Enhanced Packet body (pcapng).
CapturedLengthHere ==
    IF pc = "legacy_loop"
    THEN Field32(SubSeq(data, pos + 9, pos + 12), FileOrder)
    ELSE Field32(SubSeq(data, offset + 21, offset + 24),
                 SectionOrder(0, offset, "none"))

\* C17: in both parsers the counts of the histogram, EtherType buckets and
\* <truncated> bucket together, sum to the running packet count at every
\* point; each decoded packet adds 1 to exactly one bucket and leaves the
\* others as they are, and that bucket is <truncated> exactly when the
\* packet's captured length is below 14.
C17_HistogramSumsToPackets ==
    /\ [](BucketTotal(ether_types) = total_packets)
    /\ [][(total_packets' # total_packets \/ ether_types' # ether_types) =>
            /\ total_packets' = total_packets + 1
            /\ \E k \in BucketKeys(ether_types') :
                 /\ BucketCount(ether_types', k)
                      = BucketCount(ether_types, k) + 1
                 /\ \A j \in BucketKeys(ether_types') \ {k} :
                      BucketCount(ether_types', j) = BucketCount(ether_types, j)
                 /\ (k = TruncatedKey) <=> (CapturedLengthHere < 14)]_vars

\* C17 witness: a pcapng parse has decoded a packet of 14 bytes and one of
\* 2 bytes; the histogram holds one IPv4 packet and one truncated packet.
C17_Witness ==
    /\ pc = "ng_loop"
    /\ total_packets = 2
    /\ ether_types = << <<EtherKey(2048), 1>>, <<TruncatedKey, 1>> >>
    /\ observed[1].captured_len = 14
    /\ observed[2].captured_len = 2

\* The bytes of the file from the loop's offset on.
Leftover == Len(data) - offset

\* The bytes from offset o on form a complete block: at least 12 bytes long
\* by its leading length, within the file, its trailing length equal to its
\* leading length.
CompleteBlockAt(o) ==
    /\ o + 8 <= Len(data)
    /\ LittleEndian32(SubSeq(data, o + 5, o + 8)) >= 12
    /\ o + LittleEndian32(SubSeq(data, o + 5, o + 8)) <= Len(data)
    /\ ~TrailerDiffers(o)

\* C18: when the pcapng loop has walked the complete blocks of the file,
\* 1 to 7 bytes left over are not an error and change nothing: the loop
\* ends, no accumulator changes, and the parser returns what the blocks
\* before give (their packet count and byte total, or the NoPackets error
\* when they hold no packet); 8 or more bytes left over that are not a
\* complete block with equal leading and trailing lengths make the parser
\* return a malformed-block error ("Malformed PCAPNG block encountered" when
\* the declared length is below 12 or past the end of the file, "PCAPNG
\* block length mismatch" when the trailing length differs), which
\* analyze_pcap passes on.
C18_LeftoverBytes ==
    /\ [][(pc = "ng_loop" /\ offset > 0 /\ Leftover \in 1..7) =>
            /\ pc' \in {"returned", "raised"}
            /\ UNCHANGED << offset, total_packets, total_bytes, earliest_ts,
                            latest_ts, ether_types, sample_entries, observed,
                            snaplen_map, linktype_map >>
            /\ pc' = "raised" => /\ total_packets > 0
                                 /\ exc' = ExcYearOutOfRange
                                 /\ \E i \in 1..Len(observed) :
                                      observed[i].ts[1] > DatetimeMaxHigh
            /\ (pc' = "returned" /\ total_packets = 0) =>
                 summary' = ErrorString(MsgNoPackets)
            /\ (pc' = "returned" /\ total_packets > 0) =>
                 /\ summary'.tag = "tuple"
                 /\ summary'.metadata_lines.total_packets = total_packets
                 /\ summary'.metadata_lines.total_bytes = total_bytes
                 /\ summary'.ether_section = EtherSection(ether_types)
                 /\ summary'.sample_section = SampleSection(sample_entries)]_vars
    /\ [][(/\ pc = "ng_loop"
           /\ offset > 0
           /\ Leftover >= 8
           /\ ~CompleteBlockAt(offset)) =>
            /\ pc' = "returned"
            /\ summary' =
                 ErrorString(
                     IF LittleEndian32(SubSeq(data, offset + 5, offset + 8)) < 12
                         \/ offset + LittleEndian32(
                                         SubSeq(data, offset + 5, offset + 8))
                              > Len(data)
                     THEN MsgNgMalformed
                     ELSE MsgNgMismatch)]_vars
    /\ []((pc = "done" /\ summary.tag = "str") => result = summary.text)

\* C18 witness: three bytes followed the last block of a file that holds a
\* packet, and the parser returned the summary of that packet.
C18_Witness ==
    /\ pc = "returned"
    /\ offset > 28
    /\ Leftover = 3
    /\ total_packets = 1
    /\ summary.tag = "tuple"
    /\ summary.metadata_lines.total_packets = 1

=============================================================================
